---- MODULE Spec2Model ----
(***************************************************************************)
(* Sales dashboard (src/streamlit-test.py): the connection pool, the seven *)
(* query operations and the controller's rendering pass.                   *)
(*                                                                         *)
(* Money is counted in cents.  A nullable SQL / Python value is <<>> for   *)
(* NULL / None and <<v>> for the value v.                                  *)
(***************************************************************************)
EXTENDS Integers, Sequences, FiniteSets, TLC

VARIABLES
    table,            \* rows of public.sales_data (external, read-only)
    connection_pool,  \* the module-level name: "unset", "pool" or "unbound"
    idle,             \* connections the pool can hand out
    extHeld,          \* connections checked out by other users of the pool
    used,             \* per session: the connections the pool has checked out to it
    pc,               \* per session: the operation the pass is at, "done" or "crashed"
    conn,             \* per session: the connection the running operation holds
    filter,           \* per session: start_date, end_date, category of the pass
    result,           \* per session: what the last finished operation returned
    display,          \* per session: the four metrics as rendered
    acquired,         \* per session: successful get_connection calls of the running operation
    released,         \* per session: release_connection calls of the running operation
    st_error,         \* notices shown with st.error
    qin,              \* direct call of a query operation: its arguments
    qout              \* direct call of a query operation: its return value

vars == <<table, connection_pool, idle, extHeld, used, pc, conn, filter, result,
          display, acquired, released, st_error, qin, qout>>

----------------------------------------------------------------------------
(* Bounds and program constants *)

maxconn == 20
NumSessions == 2
MaxRows == 2

Sessions == 1..NumSessions
Conns == 1..maxconn
NoConn == 0

NULL == <<>>
Some(v) == <<v>>
IsNull(x) == x = <<>>
Val(x) == x[1]

ALL == "All Categories"

----------------------------------------------------------------------------
(* The sales table *)

Dates == {1, 2}
OrderIds == {1, 2}
Quantities == {1, 2}
StoredCategories == <<"A", "B", "All Categories">>

ProductOf(c) == CASE c = "A" -> "X" [] c = "B" -> "Y" [] OTHER -> "Z"
PriceOf(p) == IF p = "X" THEN 1000 ELSE 500

MkRow(o, d, c, q) ==
    [order_id |-> o, order_date |-> d, customer_id |-> o, customer_name |-> "cust",
     product_id |-> ProductOf(c), product_names |-> ProductOf(c), categories |-> c,
     quantity |-> q, price |-> PriceOf(ProductOf(c))]

NumRowKinds == Cardinality(OrderIds) * Cardinality(Dates) * Len(StoredCategories)
               * Cardinality(Quantities)

\* The k-th row of the row domain, k in 0..NumRowKinds-1.
RowAt(k) ==
    MkRow(1 + (k % 2), 1 + ((k \div 2) % 2),
          StoredCategories[1 + ((k \div 4) % 3)], 1 + ((k \div 12) % 2))

\* Tables of at most MaxRows rows (duplicates allowed, one representative per multiset).
Tables ==
    UNION { { [i \in 1..n |-> RowAt(f[i])] :
              f \in { g \in [1..n -> 0..(NumRowKinds - 1)] :
                        \A i \in 1..n : \A j \in 1..n : i < j => g[i] <= g[j] } }
            : n \in 0..MaxRows }

EmptyTable == <<>>
ExampleTable == << MkRow(1, 1, "A", 2), MkRow(2, 2, "B", 1) >>

----------------------------------------------------------------------------
(* SQL building blocks *)

TopLimit == 10

Revenue(r) == r.price * r.quantity

\* The WHERE clause without its category condition.
Matching_nofilter(t, sd, ed, cat) ==
    { i \in DOMAIN t :
        /\ ~IsNull(sd) /\ ~IsNull(ed)
        /\ t[i].order_date >= Val(sd) /\ t[i].order_date <= Val(ed) }

\* WHERE order_date BETWEEN %s AND %s AND (%s = 'All Categories' OR categories = %s):
\* the positions of the rows of t that satisfy it.  A NULL bound matches nothing.
Matching(t, sd, ed, cat) ==
    { i \in DOMAIN t :
        /\ ~IsNull(sd) /\ ~IsNull(ed)
        /\ t[i].order_date >= Val(sd) /\ t[i].order_date <= Val(ed)
        /\ (cat = ALL \/ t[i].categories = cat) }

RECURSIVE SumRevenue(_, _)
SumRevenue(t, I) ==
    IF I = {} THEN 0
    ELSE LET i == CHOOSE x \in I : TRUE
         IN Revenue(t[i]) + SumRevenue(t, I \ {i})

\* SUM(price * quantity): NULL over no rows.
SqlSum(t, I) == IF I = {} THEN NULL ELSE Some(SumRevenue(t, I))

\* COUNT(*) in place of COUNT(DISTINCT order_id).
CountRows(t, I) == Cardinality(I)

\* COUNT(DISTINCT order_id)
CountDistinctOrders(t, I) == Cardinality({ t[i].order_id : i \in I })

RECURSIVE Gcd(_, _)
Gcd(a, b) == IF b = 0 THEN a ELSE Gcd(b, a % b)

\* numeric / bigint: the quotient as a fraction in lowest terms <<num, den>>;
\* NULL when the dividend is NULL (the division is then not evaluated).
SqlDiv(x, n) ==
    IF IsNull(x) THEN NULL
    ELSE LET g == Gcd(Val(x), n) IN
         IF g = 0 THEN Some(<<0, 1>>) ELSE Some(<<Val(x) \div g, n \div g>>)

\* All orders of the elements of S that ORDER BY can produce: key[x] is the sort
\* key of x (ascending), and rows with equal keys may come out either way.
Orderings(S, key) ==
    { f \in [1..Cardinality(S) -> S] :
        /\ \A i, j \in DOMAIN f : i # j => f[i] # f[j]
        /\ \A i, j \in DOMAIN f : i < j => key[f[i]] <= key[f[j]] }

\* Text order of the category values (ORDER BY categories).
CategoryRank(c) == CASE c = "A" -> 1 [] c = "All Categories" -> 2 [] c = "B" -> 3

\* str.capitalize(): first character upper case, the rest lower case.
capitalize(c) == CASE c = "A" -> "A" [] c = "B" -> "B"
                   [] c = "All Categories" -> "All categories"

Limit(seq, n) == IF Len(seq) <= n THEN seq ELSE SubSeq(seq, 1, n)

\* pd.DataFrame(rows) without columns=.
DataFrame_nocolumns(rows, columns) == [columns |-> <<>>, rows |-> rows]

\* pd.DataFrame(rows, columns=columns) and pd.DataFrame()
DataFrame(rows, columns) == [columns |-> columns, rows |-> rows]
EmptyDataFrame == [columns |-> <<>>, rows |-> <<>>]

----------------------------------------------------------------------------
(* The seven queries: what cur.fetchone() / cur.fetchall() can return, shaped *)
(* as the operation returns it.  Each is the set of possible return values:  *)
(* rows whose sort keys are equal come out in either order.                  *)

SetMin(S) == CHOOSE x \in S : \A y \in S : x <= y
SetMax(S) == CHOOSE x \in S : \A y \in S : x >= y

\* SELECT MIN(order_date), MAX(order_date) FROM public.sales_data
get_date_range_query(t) ==
    LET ds == { t[i].order_date : i \in DOMAIN t } IN
    IF ds = {} THEN { <<NULL, NULL>> }
    ELSE { <<Some(SetMin(ds)), Some(SetMax(ds))>> }

\* SELECT DISTINCT categories ... ORDER BY categories, each capitalize()d
get_unique_categories_query(t) ==
    LET cs == { t[i].categories : i \in DOMAIN t }
        key == [c \in cs |-> CategoryRank(c)]
    IN { [i \in DOMAIN f |-> capitalize(f[i])] : f \in Orderings(cs, key) }

\* category_totals: categories -> SUM(price * quantity) over the filtered rows
category_totals(t, I) ==
    [ c \in { t[i].categories : i \in I } |->
        SumRevenue(t, { i \in I : t[i].categories = c }) ]

\* top_category: ORDER BY category_revenue DESC LIMIT 1; as a scalar subquery it
\* is NULL when category_totals has no row.
top_category(t, I) ==
    LET ct == category_totals(t, I) IN
    IF DOMAIN ct = {} THEN { NULL }
    ELSE { Some(c) : c \in { d \in DOMAIN ct : \A e \in DOMAIN ct : ct[d] >= ct[e] } }

\* overall_stats joined with top_category: one row
\* <<total_revenue, total_orders, avg_order_value, top_category>>
get_dashboard_stats_query(t, sd, ed, cat) ==
    LET I == Matching(t, sd, ed, cat)
        total_revenue == SqlSum(t, I)
        total_orders == CountDistinctOrders(t, I)
        avg_order_value == SqlDiv(SqlSum(t, I), CountDistinctOrders(t, I))
    IN { <<total_revenue, total_orders, avg_order_value, top>> :
           top \in top_category(t, I) }

\* GROUP BY DATE(order_date) ORDER BY date
get_plot_data_query(t, sd, ed, cat) ==
    LET I == Matching(t, sd, ed, cat)
        ks == { t[i].order_date : i \in I }
        key == [d \in ks |-> d]
    IN { DataFrame([n \in DOMAIN f |->
                      <<f[n], SumRevenue(t, { i \in I : t[i].order_date = f[n] })>>],
                   <<"date", "revenue">>)
         : f \in Orderings(ks, key) }

\* GROUP BY categories ORDER BY revenue DESC
get_revenue_by_category_query(t, sd, ed, cat) ==
    LET I == Matching(t, sd, ed, cat)
        ct == category_totals(t, I)
        key == [c \in DOMAIN ct |-> 0 - ct[c]]
    IN { DataFrame([n \in DOMAIN f |-> <<f[n], ct[f[n]]>>],
                   <<"categories", "revenue">>)
         : f \in Orderings(DOMAIN ct, key) }

\* GROUP BY product_names ORDER BY revenue DESC LIMIT 10
get_top_products_query(t, sd, ed, cat) ==
    LET I == Matching(t, sd, ed, cat)
        ks == { t[i].product_names : i \in I }
        rev(k) == SumRevenue(t, { i \in I : t[i].product_names = k })
        key == [k \in ks |-> 0 - rev(k)]
    IN { DataFrame(Limit([n \in DOMAIN f |-> <<f[n], rev(f[n])>>], TopLimit),
                   <<"product_names", "revenue">>)
         : f \in Orderings(ks, key) }

\* The select list of get_raw_data, as cur.description names it.
RawColumns ==
    <<"order_id", "order_date", "customer_id", "customer_name", "product_id",
      "product_names", "categories", "quantity", "price", "revenue">>

RawRow(r) ==
    <<r.order_id, r.order_date, r.customer_id, r.customer_name, r.product_id,
      r.product_names, r.categories, r.quantity, r.price, Revenue(r)>>

\* every matching row plus revenue, ORDER BY order_date, order_id
get_raw_data_query(t, sd, ed, cat) ==
    LET I == Matching(t, sd, ed, cat)
        width == 1 + SetMax({ t[i].order_id : i \in DOMAIN t } \cup {0})
        key == [i \in I |-> t[i].order_date * width + t[i].order_id]
    IN { DataFrame([n \in DOMAIN f |-> RawRow(t[f[n]])], RawColumns)
         : f \in Orderings(I, key) }

----------------------------------------------------------------------------
(* The connection pool and the two helpers around it *)

\* How many connections other users of the shared pool hold while the sessions
\* run: from a load that leaves one connection per session to one that leaves none.
ExtLoads == (maxconn - NumSessions)..maxconn

\* getconn without the exhaustion check: hands out a connection in any case.
getconn_unchecked(free) ==
    [raised |-> "", conn |-> IF free = {} THEN SetMin(Conns) ELSE SetMin(free)]

\* connection_pool.getconn(): a free connection, or PoolError once every
\* connection is checked out.
getconn(free) ==
    IF free = {} THEN [raised |-> "PoolError", conn |-> NoConn]
    ELSE [raised |-> "", conn |-> SetMin(free)]

\* putconn that forgets the connection.
putconn_dropped(free, c) == free

\* connection_pool.putconn(conn): the connection is free again.
putconn(free, c) == free \cup {c}

\* get_connection(): the connection, or None (NoConn) after st.error when
\* getconn raised a psycopg2.Error or returned nothing.
get_connection(free) ==
    LET r == getconn(free) IN
    IF r.raised # "" THEN NoConn
    ELSE IF r.conn # NoConn THEN r.conn ELSE NoConn

\* A second release_connection call after the one in the finally clause.
release_calls_twice(c) == IF c = NoConn THEN 0 ELSE 2

\* How many times the finally clause of an operation calls release_connection
\* for the value get_connection gave it; an operation that got None has
\* returned before its try block.
release_calls(c) == IF c = NoConn THEN 0 ELSE 1

----------------------------------------------------------------------------
(* The controller's rendering pass *)

OpSeq == <<"get_date_range", "get_unique_categories", "get_dashboard_stats",
           "get_plot_data", "get_revenue_by_category", "get_top_products",
           "get_raw_data">>

TabularOps == {"get_plot_data", "get_revenue_by_category", "get_top_products",
               "get_raw_data"}

OpIndex(op) == CHOOSE i \in DOMAIN OpSeq : OpSeq[i] = op
NextPc(op) == IF OpIndex(op) = Len(OpSeq) THEN "done" ELSE OpSeq[OpIndex(op) + 1]

\* What each operation returns when get_connection gave None.
NoConnectionValue(op) ==
    CASE op = "get_date_range" -> <<NULL, NULL>>
      [] op = "get_unique_categories" -> <<>>
      [] op = "get_dashboard_stats" -> NULL
      [] OTHER -> EmptyDataFrame

\* What each operation can return once its query ran.
QueryValues(op, t, f) ==
    CASE op = "get_date_range" -> get_date_range_query(t)
      [] op = "get_unique_categories" -> get_unique_categories_query(t)
      [] op = "get_dashboard_stats" ->
            { Some(row) : row \in get_dashboard_stats_query(t, f.start_date, f.end_date, f.category) }
      [] op = "get_plot_data" -> get_plot_data_query(t, f.start_date, f.end_date, f.category)
      [] op = "get_revenue_by_category" ->
            get_revenue_by_category_query(t, f.start_date, f.end_date, f.category)
      [] op = "get_top_products" -> get_top_products_query(t, f.start_date, f.end_date, f.category)
      [] op = "get_raw_data" -> get_raw_data_query(t, f.start_date, f.end_date, f.category)

\* Python truth value of what get_dashboard_stats returned: None is false, a
\* fetched row (a non-empty tuple) is true.
Truthy(stats) == ~IsNull(stats) /\ Len(Val(stats)) > 0

\* The else branch without its "N/A".
MetricsValues_noNA(stats) ==
    IF Truthy(stats) THEN Val(stats)
    ELSE <<Some(0), 0, Some(<<0, 1>>), NULL>>

\* `if stats: ... else: 0, 0, 0, "N/A"`
MetricsValues(stats) ==
    IF Truthy(stats) THEN Val(stats)
    ELSE <<Some(0), 0, Some(<<0, 1>>), Some("N/A")>>

\* f"{x:,.2f}" of a fraction of cents: the nearest cent, ties to even.
Format2f(q) ==
    LET n == q[1]  d == q[2]  w == n \div d  r == n % d IN
    IF 2 * r > d \/ (2 * r = d /\ w % 2 = 1) THEN w + 1 ELSE w

\* The format specs of metrics_html raise TypeError on None.
MetricsRaises(m) == IsNull(m[1]) \/ IsNull(m[3])

MetricsHtml(m) ==
    [total_revenue |-> Format2f(<<Val(m[1]), 1>>),
     total_orders |-> m[2],
     avg_order_value |-> Format2f(Val(m[3])),
     top_category |-> IF IsNull(m[4]) THEN "None" ELSE Val(m[4])]

HasColumn(data, col) == \E i \in DOMAIN data.columns : data.columns[i] = col

\* plot_data(): columns are read only when the table has rows.
plot_data(data, x_col, y_col) ==
    IF data.rows # <<>>
    THEN IF HasColumn(data, x_col) /\ HasColumn(data, y_col)
         THEN "bars" ELSE "KeyError"
    ELSE "No data available"

PlotColumns(op) ==
    CASE op = "get_plot_data" -> <<"date", "revenue">>
      [] op = "get_revenue_by_category" -> <<"categories", "revenue">>
      [] op = "get_top_products" -> <<"product_names", "revenue">>

Returned(op, v) == [op |-> op, value |-> v, raised |-> ""]
Raised(op, e) == [op |-> op, value |-> NULL, raised |-> e]

\* The controller code that follows the return of operation op with value v,
\* up to the call of the next operation.
Controller(s, op, v) ==
    CASE op = "get_date_range" ->
            \* min_date, max_date become the date inputs' values
            /\ filter' = [filter EXCEPT ![s].start_date = v[1], ![s].end_date = v[2]]
            /\ result' = [result EXCEPT ![s] = Returned(op, v)]
            /\ pc' = [pc EXCEPT ![s] = NextPc(op)]
            /\ UNCHANGED display
      [] op = "get_unique_categories" ->
            \* the selectbox over ["All Categories"] + categories, left at its
            \* first option
            /\ filter' = [filter EXCEPT ![s].category = (<<ALL>> \o v)[1]]
            /\ result' = [result EXCEPT ![s] = Returned(op, v)]
            /\ pc' = [pc EXCEPT ![s] = NextPc(op)]
            /\ UNCHANGED display
      [] op = "get_dashboard_stats" ->
            /\ UNCHANGED filter
            /\ IF MetricsRaises(MetricsValues(v))
               THEN /\ result' = [result EXCEPT ![s] = [Returned(op, v) EXCEPT !.raised = "TypeError"]]
                    /\ pc' = [pc EXCEPT ![s] = "crashed"]
                    /\ UNCHANGED display
               ELSE /\ result' = [result EXCEPT ![s] = Returned(op, v)]
                    /\ pc' = [pc EXCEPT ![s] = NextPc(op)]
                    /\ display' = [display EXCEPT ![s] = Some(MetricsHtml(MetricsValues(v)))]
      [] op \in {"get_plot_data", "get_revenue_by_category", "get_top_products"} ->
            /\ UNCHANGED <<filter, display>>
            /\ IF plot_data(v, PlotColumns(op)[1], PlotColumns(op)[2]) = "KeyError"
               THEN /\ result' = [result EXCEPT ![s] = [Returned(op, v) EXCEPT !.raised = "KeyError"]]
                    /\ pc' = [pc EXCEPT ![s] = "crashed"]
               ELSE /\ result' = [result EXCEPT ![s] = Returned(op, v)]
                    /\ pc' = [pc EXCEPT ![s] = NextPc(op)]
      [] op = "get_raw_data" ->
            /\ UNCHANGED <<filter, display>>
            /\ result' = [result EXCEPT ![s] = Returned(op, v)]
            /\ pc' = [pc EXCEPT ![s] = NextPc(op)]

\* Module start: the pool is built, or psycopg2.Error is caught and reported
\* and the name connection_pool is never bound.
Startup ==
    /\ connection_pool = "unset"
    /\ \/ /\ connection_pool' = "pool"
          /\ \E k \in ExtLoads : /\ extHeld' = 1..k
                                 /\ idle' = Conns \ (1..k)
          /\ UNCHANGED st_error
       \/ /\ connection_pool' = "unbound"
          /\ st_error' = st_error \cup {"Error creating connection pool"}
          /\ UNCHANGED <<idle, extHeld>>
    /\ UNCHANGED <<table, used, pc, conn, filter, result, display, acquired, released,
                   qin, qout>>

\* The prologue every operation shares: conn = get_connection();
\* if conn is None: return <default>.
OpCall(s, op) ==
    /\ connection_pool # "unset"
    /\ pc[s] = op /\ conn[s] = NoConn
    /\ IF connection_pool = "unbound"
       THEN \* NameError at connection_pool.getconn(): not a psycopg2.Error
            /\ pc' = [pc EXCEPT ![s] = "crashed"]
            /\ result' = [result EXCEPT ![s] = Raised(op, "NameError")]
            /\ acquired' = [acquired EXCEPT ![s] = 0]
            /\ released' = [released EXCEPT ![s] = 0]
            /\ UNCHANGED <<idle, used, conn, filter, display, st_error>>
       ELSE LET c == get_connection(idle) IN
            IF c # NoConn
            THEN /\ conn' = [conn EXCEPT ![s] = c]
                 /\ idle' = idle \ {c}
                 /\ used' = [used EXCEPT ![s] = used[s] \cup {c}]
                 /\ acquired' = [acquired EXCEPT ![s] = 1]
                 /\ released' = [released EXCEPT ![s] = 0]
                 /\ UNCHANGED <<pc, filter, result, display, st_error>>
            ELSE /\ st_error' = st_error \cup {"Error getting connection from pool"}
                 /\ acquired' = [acquired EXCEPT ![s] = 0]
                 /\ released' = [released EXCEPT ![s] = release_calls(c)]
                 /\ Controller(s, op, NoConnectionValue(op))
                 /\ UNCHANGED <<idle, used, conn>>
    /\ UNCHANGED <<table, connection_pool, extHeld, qin, qout>>

\* release_connection(conn) as the finally clause runs it.
release_connection(s) ==
    /\ idle' = IF release_calls(conn[s]) > 0 THEN putconn(idle, conn[s]) ELSE idle
    /\ used' = IF release_calls(conn[s]) > 0
               THEN [used EXCEPT ![s] = used[s] \ {conn[s]}] ELSE used
    /\ released' = [released EXCEPT ![s] = released[s] + release_calls(conn[s])]
    /\ conn' = [conn EXCEPT ![s] = NoConn]

\* The try block of an operation with its finally clause: the query returns and
\* the operation returns its value, or the query raises and so does the operation.
OpQuery(s, op) ==
    /\ pc[s] = op /\ conn[s] # NoConn
    /\ release_connection(s)
    /\ \/ \E v \in QueryValues(op, table, filter[s]) : Controller(s, op, v)
       \/ /\ pc' = [pc EXCEPT ![s] = "crashed"]
          /\ result' = [result EXCEPT ![s] = Raised(op, "psycopg2.Error")]
          /\ UNCHANGED <<filter, display>>
    /\ UNCHANGED <<table, connection_pool, extHeld, acquired, st_error, qin, qout>>

get_date_range(s) == OpCall(s, "get_date_range") \/ OpQuery(s, "get_date_range")
get_unique_categories(s) ==
    OpCall(s, "get_unique_categories") \/ OpQuery(s, "get_unique_categories")
get_dashboard_stats(s) ==
    OpCall(s, "get_dashboard_stats") \/ OpQuery(s, "get_dashboard_stats")
get_plot_data(s) == OpCall(s, "get_plot_data") \/ OpQuery(s, "get_plot_data")
get_revenue_by_category(s) ==
    OpCall(s, "get_revenue_by_category") \/ OpQuery(s, "get_revenue_by_category")
get_top_products(s) == OpCall(s, "get_top_products") \/ OpQuery(s, "get_top_products")
get_raw_data(s) == OpCall(s, "get_raw_data") \/ OpQuery(s, "get_raw_data")

PassTables == {EmptyTable, ExampleTable}

NoResult == [op |-> "", value |-> NULL, raised |-> ""]
NoQuery == [start_date |-> NULL, end_date |-> NULL, category |-> ALL]

Init ==
    /\ table \in PassTables
    /\ connection_pool = "unset"
    /\ idle = {}
    /\ extHeld = {}
    /\ used = [s \in Sessions |-> {}]
    /\ pc = [s \in Sessions |-> OpSeq[1]]
    /\ conn = [s \in Sessions |-> NoConn]
    /\ filter = [s \in Sessions |-> [start_date |-> NULL, end_date |-> NULL, category |-> ALL]]
    /\ result = [s \in Sessions |-> NoResult]
    /\ display = [s \in Sessions |-> NULL]
    /\ acquired = [s \in Sessions |-> 0]
    /\ released = [s \in Sessions |-> 0]
    /\ st_error = {}
    /\ qin = NoQuery
    /\ qout = NoResult

Next ==
    \/ Startup
    \/ \E s \in Sessions : get_date_range(s)
    \/ \E s \in Sessions : get_unique_categories(s)
    \/ \E s \in Sessions : get_dashboard_stats(s)
    \/ \E s \in Sessions : get_plot_data(s)
    \/ \E s \in Sessions : get_revenue_by_category(s)
    \/ \E s \in Sessions : get_top_products(s)
    \/ \E s \in Sessions : get_raw_data(s)

Spec == Init /\ [][Next]_vars

----------------------------------------------------------------------------
(* The query operations called directly, with a connection at hand, on every *)
(* table of at most MaxRows rows and every filter.                           *)

FilterCategories == {ALL, "A", "B"}

QueryCall(op) ==
    /\ \E v \in QueryValues(op, table, qin) : qout' = Returned(op, v)
    /\ UNCHANGED <<table, connection_pool, idle, extHeld, used, pc, conn, filter,
                   result, display, acquired, released, st_error, qin>>

call_get_date_range == QueryCall("get_date_range")
call_get_unique_categories == QueryCall("get_unique_categories")
call_get_dashboard_stats == QueryCall("get_dashboard_stats")
call_get_plot_data == QueryCall("get_plot_data")
call_get_revenue_by_category == QueryCall("get_revenue_by_category")
call_get_top_products == QueryCall("get_top_products")
call_get_raw_data == QueryCall("get_raw_data")

QueryInit ==
    /\ table \in Tables
    /\ \E sd \in Dates, ed \in Dates, c \in FilterCategories :
          qin = [start_date |-> Some(sd), end_date |-> Some(ed), category |-> c]
    /\ qout = NoResult
    /\ connection_pool = "pool"
    /\ idle = Conns
    /\ extHeld = {}
    /\ used = [s \in Sessions |-> {}]
    /\ pc = [s \in Sessions |-> "done"]
    /\ conn = [s \in Sessions |-> NoConn]
    /\ filter = [s \in Sessions |-> [start_date |-> NULL, end_date |-> NULL, category |-> ALL]]
    /\ result = [s \in Sessions |-> NoResult]
    /\ display = [s \in Sessions |-> NULL]
    /\ acquired = [s \in Sessions |-> 0]
    /\ released = [s \in Sessions |-> 0]
    /\ st_error = {}

QueryNext ==
    \/ call_get_date_range
    \/ call_get_unique_categories
    \/ call_get_dashboard_stats
    \/ call_get_plot_data
    \/ call_get_revenue_by_category
    \/ call_get_top_products
    \/ call_get_raw_data

QuerySpec == QueryInit /\ [][QueryNext]_vars

----------------------------------------------------------------------------
(* Properties of the rendering passes (Spec) *)

ZeroMetrics ==
    Some([total_revenue |-> 0, total_orders |-> 0, avg_order_value |-> 0,
          top_category |-> "N/A"])

CheckedOutBySessions == { <<s, c>> : s \in Sessions, c \in Conns } \cap
                        { p \in Sessions \X Conns : p[2] \in used[p[1]] }

C2_ReleaseOncePerAcquire ==
    \A s \in Sessions :
        /\ acquired[s] \in {0, 1}
        /\ released[s] <= acquired[s]
        /\ conn[s] # NoConn => (acquired[s] = 1 /\ released[s] = 0)
        /\ conn[s] = NoConn => released[s] = acquired[s]

C2_Witness ==
    \E s \in Sessions, t \in Sessions :
        /\ acquired[s] = 1 /\ released[s] = 1 /\ result[s].op # ""
        /\ acquired[t] = 0 /\ released[t] = 0 /\ result[t].op # ""
        /\ result[t].raised = ""

\* C3: when the pool could not be built at startup the error is reported and
\* the rendering pass that follows is not terminated by an unhandled error.
C3_DegradedPassRuns ==
    connection_pool = "unbound" =>
        /\ "Error creating connection pool" \in st_error
        /\ \A s \in Sessions : pc[s] # "crashed"

\* C4: a query failure after the connection was obtained never leaves the
\* operation as an exception that terminates the rendering pass.
C4_QueryFailureHandled ==
    \A s \in Sessions : ~(pc[s] = "crashed" /\ result[s].raised = "psycopg2.Error")

C6_EmptyTableMetrics ==
    \A s \in Sessions :
        (table = EmptyTable /\ acquired[s] = 1 /\ conn[s] = NoConn /\ result[s].raised # "psycopg2.Error") =>
            /\ result[s].op = "get_date_range" => result[s].value = <<NULL, NULL>>
            /\ result[s].op = "get_dashboard_stats" =>
                  (pc[s] # "crashed" /\ display[s] = ZeroMetrics)

C7_Columns(op) ==
    CASE op = "get_plot_data" -> <<"date", "revenue">>
      [] op = "get_revenue_by_category" -> <<"categories", "revenue">>
      [] op = "get_top_products" -> <<"product_names", "revenue">>
      [] op = "get_raw_data" ->
            <<"order_id", "order_date", "customer_id", "customer_name", "product_id",
              "product_names", "categories", "quantity", "price", "revenue">>

\* C7 as stated: every table a tabular operation returns carries the
\* operation's column names, also when no connection was available.
C7_AlwaysKnownColumns ==
    \A s \in Sessions :
        (result[s].op \in TabularOps /\ result[s].raised = "" /\ conn[s] = NoConn) =>
            result[s].value.columns = C7_Columns(result[s].op)

\* C7 as amended: a tabular operation that had a connection returns a table
\* with the operation's column names, also for zero rows; one that had no
\* connection returns an empty table without columns.  It is never a null value.
C7_ColumnsWhenConnected ==
    \A s \in Sessions :
        (result[s].op \in TabularOps /\ result[s].raised = "" /\ conn[s] = NoConn) =>
            IF acquired[s] = 1
            THEN result[s].value.columns = C7_Columns(result[s].op)
            ELSE result[s].value = [columns |-> <<>>, rows |-> <<>>]

C7_Witness ==
    \E s \in Sessions, t \in Sessions :
        /\ result[s].op \in TabularOps /\ result[s].raised = "" /\ conn[s] = NoConn
        /\ acquired[s] = 1
        /\ result[s].value.rows = <<>>
        /\ result[s].value.columns = C7_Columns(result[s].op)
        /\ result[t].op \in TabularOps /\ result[t].raised = "" /\ conn[t] = NoConn
        /\ acquired[t] = 0

\* C10: under every interleaving of the sessions' acquire and release steps the
\* connections checked out never number more than maxconn, no connection is
\* checked out to two holders at once, and a session holds at most one.
C10_PoolSafety ==
    connection_pool = "pool" =>
        /\ Cardinality(extHeld) + Cardinality(CheckedOutBySessions) <= maxconn
        /\ \A s \in Sessions :
              /\ Cardinality(used[s]) <= 1
              /\ used[s] \cap extHeld = {}
              /\ used[s] \cap idle = {}
              /\ conn[s] # NoConn => used[s] = {conn[s]}
              /\ \A t \in Sessions : s # t => used[s] \cap used[t] = {}

C10_Witness ==
    /\ idle = {}
    /\ \A s \in Sessions : conn[s] # NoConn
    /\ Cardinality(extHeld) + Cardinality(CheckedOutBySessions) = maxconn

----------------------------------------------------------------------------
(* Properties of the query operations (QuerySpec) *)

QWindow(r) ==
    /\ r.order_date >= Val(qin.start_date)
    /\ r.order_date <= Val(qin.end_date)

QFiltered ==
    { i \in 1..Len(table) :
        QWindow(table[i]) /\ (qin.category = "All Categories" \/ table[i].categories = qin.category) }

\* price x quantity summed over the rows at the positions J among 1..n
RECURSIVE QSum(_, _)
QSum(J, n) ==
    IF n = 0 THEN 0
    ELSE (IF n \in J THEN table[n].price * table[n].quantity ELSE 0) + QSum(J, n - 1)

QCategorySum(c) == QSum({ i \in QFiltered : table[i].categories = c }, Len(table))

IsExampleTable ==
    /\ Len(table) = 2
    /\ { table[1], table[2] } = { ExampleTable[1], ExampleTable[2] }
    /\ table[1] # table[2]

FullRange == qin.start_date = Some(1) /\ qin.end_date = Some(2)

\* C8: when the filtered row set is not empty, get_dashboard_stats returns the
\* sum of price x quantity over it, the number of distinct order ids in it,
\* their quotient, and a category of maximal summed revenue; on the two-row
\* example that is 25.00, 2, 12.50, "A" without filter and 5.00, 1, "B" with
\* filter "B".
C8_StatsCorrect ==
    (qout.op = "get_dashboard_stats" /\ QFiltered # {}) =>
        LET row == Val(qout.value)
            total == QSum(QFiltered, Len(table))
            orders == Cardinality({ table[i].order_id : i \in QFiltered })
        IN /\ row[1] = Some(total)
           /\ row[2] = orders
           /\ ~IsNull(row[3])
           /\ Val(row[3])[1] * orders = total * Val(row[3])[2]
           /\ ~IsNull(row[4])
           /\ \E i \in QFiltered : table[i].categories = Val(row[4])
           /\ \A j \in QFiltered : QCategorySum(Val(row[4])) >= QCategorySum(table[j].categories)
           /\ (IsExampleTable /\ FullRange /\ qin.category = "All Categories") =>
                 row = <<Some(2500), 2, Some(<<1250, 1>>), Some("A")>>
           /\ (IsExampleTable /\ FullRange /\ qin.category = "B") =>
                 (row[1] = Some(500) /\ row[2] = 1 /\ row[4] = Some("B"))

C8_Witness ==
    /\ qout.op = "get_dashboard_stats"
    /\ IsExampleTable /\ FullRange /\ qin.category = "All Categories"
    /\ qout.value = Some(<<Some(2500), 2, Some(<<1250, 1>>), Some("A")>>)

StoredCats == { table[i].categories : i \in DOMAIN table }
RowSet(df) == { df.rows[i] : i \in DOMAIN df.rows }
NullAsZero(x) == IF IsNull(x) THEN 0 ELSE Val(x)

RawRowsFor(c) ==
    UNION { RowSet(df) : df \in get_raw_data_query(table, qin.start_date, qin.end_date, c) }

TotalFor(c) ==
    NullAsZero((CHOOSE row \in get_dashboard_stats_query(table, qin.start_date, qin.end_date, c) : TRUE)[1])

RECURSIVE SumTotals(_)
SumTotals(S) ==
    IF S = {} THEN 0
    ELSE LET c == CHOOSE x \in S : TRUE IN TotalFor(c) + SumTotals(S \ {c})

UnionOfCategories ==
    /\ (qout.op = "get_raw_data" /\ qin.category = "All Categories") =>
          RowSet(qout.value) = UNION { RawRowsFor(c) : c \in StoredCats }
    /\ (qout.op = "get_revenue_by_category" /\ qin.category = "All Categories") =>
          /\ Len(qout.value.rows) = Cardinality(RowSet(qout.value))
          /\ \A c \in StoredCats :
                \A df \in get_revenue_by_category_query(table, qin.start_date, qin.end_date, c) :
                    /\ { r \in RowSet(qout.value) : r[1] = c } = RowSet(df)
                    /\ Len(df.rows) <= 1
    /\ (qout.op = "get_dashboard_stats" /\ qin.category = "All Categories") =>
          NullAsZero(Val(qout.value)[1]) = SumTotals(StoredCats)

\* C9 as stated: for every table and window the results without filter are the
\* union of the results of filtering by each stored category: the raw rows, the
\* revenue-by-category rows (one per category, equal to the category's own
\* filtered row) and the total revenue (the sum of the per-category totals, a
\* NULL total counting as 0).
C9_UnionOfCategories == UnionOfCategories

\* C9 as amended: the same, for every table in which no row's category is the
\* string "All Categories" itself.
C9_UnionWithoutSentinel == ("All Categories" \notin StoredCats) => UnionOfCategories

C9_Witness ==
    /\ "All Categories" \notin StoredCats
    /\ qin.category = "All Categories"
    /\ qout.op = "get_revenue_by_category"
    /\ Len(qout.value.rows) = 2
    /\ StoredCats = {"A", "B"}

====
